---- MODULE Spec2Model ----
(***************************************************************************)
(* Model of the StressMonitor class of the stress-monitor extension        *)
(* (src/stress-monitor-extension/src/stressMonitor.ts): the flat entry     *)
(* list, the coding sessions, the current level, the single inactivity     *)
(* timer of the JavaScript runtime and the level-change callback.          *)
(*                                                                         *)
(* Session objects live in `heap` (object identity = index), because the   *)
(* code shares one object between `currentSession` and `sessions`; objects *)
(* that neither field references any longer are collected.  Every          *)
(* private method is an operator from a monitor record to a monitor        *)
(* record; every public method, and the firing of the timer, is one        *)
(* action that applies the method's whole body at the instant `now`.       *)
(***************************************************************************)
EXTENDS Integers, Sequences, FiniteSets

VARIABLES
    entries,               \* StressMonitor.entries
    currentLevel,          \* StressMonitor.currentLevel
    currentSession,        \* StressMonitor.currentSession: Null or a heap index
    sessions,              \* StressMonitor.sessions: sequence of heap indices
    heap,                  \* the CodingSession objects ever constructed
    sessionTimeout,        \* StressMonitor.sessionTimeout: Null or a timer handle
    timers,                \* the runtime's pending setTimeout timers
    onStressLevelChanged,  \* the registered callback ("undefined" when none)
    now,                   \* the wall clock, in milliseconds
    lastOp,                \* history: the most recent event, its outcome and
                           \* the level before it
    cbLog,                 \* history: callback invocations made by that event
    cbSeen,                \* history: what each of these invocations could read
    reportLog              \* history: levels of the report calls since the last
                           \* clearHistory (or construction), in call order

vars == <<entries, currentLevel, currentSession, sessions, heap, sessionTimeout,
          timers, onStressLevelChanged, now, lastOp, cbLog, cbSeen, reportLog>>

----------------------------------------------------------------------------
(* Bounds of the model *)

MaxReports == 2
MaxSessions == 2
MaxMinutes == 45
LiveMaxReports == 1
LiveMaxSessions == 1
RoundMaxReports == 1
RoundMaxSessions == 2
MaxHistory == 3
StatsMaxReports == 1

(* Program constants *)

SESSION_TIMEOUT_MINUTES == 30
MsPerSecond == 1000
SecondsPerMinute == 60
Null == 0

MsPerMinute == MsPerSecond * SecondsPerMinute
MsPerDay == 24 * 60 * MsPerMinute
SessionTimeoutMs == SESSION_TIMEOUT_MINUTES * SecondsPerMinute * MsPerSecond
MaxNow == MaxMinutes * MsPerMinute
TickSteps == {SessionTimeoutMs \div 2, SessionTimeoutMs}

\* The local time of day at which the monitor is constructed (the instant 0
\* of the clock): a quarter to midnight, so that a day ends within the horizon.
TimeOfDayAtInit == MsPerDay - SessionTimeoutMs \div 2

StressLevel == {"low", "medium", "high"}
GsrValues == {41}
CallbackKinds == {"undefined", "returns", "throws"}
ReportOps == {"reportStress", "reportCalm", "updateFromHardware",
              "reportStressWithCallback", "reportCalmWithCallback"}

----------------------------------------------------------------------------
(* Helpers *)

\* Mutation: the quotient is rounded with halves towards -infinity.
MathRoundHalfDown(n, d) == (2 * n + d - 1) \div (2 * d)

\* Math.round(n / d) for d > 0: the nearest integer, halves towards +infinity.
MathRound(n, d) == (2 * n + d) \div (2 * d)

\* An optional field: <<>> when undefined, <<v>> when set.
Undefined == << >>
Some(v) == <<v>>

\* const today = new Date(); today.setHours(0, 0, 0, 0), at the instant t:
\* the local midnight that begins the day of t.
StartOfDay(t) == t - ((t + TimeOfDayAtInit) % MsPerDay)

StressEntry(t, level, notes) == [timestamp |-> t, level |-> level, notes |-> notes]

NewSession(t) ==
    [startTime |-> t, endTime |-> Undefined, duration |-> Undefined,
     stressEvents |-> << >>, isActive |-> TRUE]

\* The session s as endCurrentSession leaves it at the instant t.
Closed(s, t) ==
    [s EXCEPT !.isActive = FALSE,
              !.endTime = Some(t),
              !.duration = Some(MathRound(t - s.startTime, MsPerMinute))]

\* The sum of a list of numbers: reduce((sum, x) => sum + x, 0).
RECURSIVE Sum(_)
Sum(xs) == IF xs = << >> THEN 0 ELSE Head(xs) + Sum(Tail(xs))

\* Math.max(...xs) of a non-empty list.
Max(xs) == CHOOSE x \in {xs[i] : i \in 1..Len(xs)} :
               \A i \in 1..Len(xs) : xs[i] <= x

\* currentSession && currentSession.isActive
HasActiveSession(m) ==
    /\ m.currentSession # Null
    /\ m.heap[m.currentSession].isActive

\* The monitor and the runtime's timer table as one record.
Monitor ==
    [entries |-> entries, currentLevel |-> currentLevel,
     currentSession |-> currentSession, sessions |-> sessions, heap |-> heap,
     sessionTimeout |-> sessionTimeout, timers |-> timers,
     onStressLevelChanged |-> onStressLevelChanged,
     time |-> now, calls |-> << >>, seen |-> << >>, inner |-> << >>,
     threw |-> FALSE]

----------------------------------------------------------------------------
(* The runtime's timers *)

\* The one timer that a schedule at the instant t leaves pending.
FreshWindow(handle, t) == {[id |-> handle, due |-> t + SessionTimeoutMs]}

ClearTimeout(ts, handle) == {t \in ts : t.id # handle}

FreshHandle(ts) ==
    CHOOSE i \in 1..(Cardinality(ts) + 1) :
        /\ \A t \in ts : t.id # i
        /\ \A j \in 1..(i - 1) : \E t \in ts : t.id = j

SetTimeout(m, t) ==
    LET h == FreshHandle(m.timers)
    IN [m EXCEPT !.timers = @ \cup {[id |-> h, due |-> t + SessionTimeoutMs]},
                 !.sessionTimeout = h]

----------------------------------------------------------------------------
(* Private methods *)

\* Mutation: the session is closed but the pending timer is not cancelled.
EndCurrentSessionNoCancel(m, t) ==
    LET cur == m.currentSession
    IN IF HasActiveSession(m)
       THEN [m EXCEPT !.heap[cur] =
                [m.heap[cur] EXCEPT
                    !.endTime = Some(t),
                    !.duration = Some(MathRound(t - m.heap[cur].startTime,
                                                MsPerMinute)),
                    !.isActive = FALSE]]
       ELSE m

\* Mutation: the current session is closed again although it is not active.
EndCurrentSessionAnyCurrent(m, t) ==
    LET cur == m.currentSession
        m1 == IF cur # Null
              THEN [m EXCEPT !.heap[cur] =
                        [m.heap[cur] EXCEPT
                            !.endTime = Some(t),
                            !.duration = Some(MathRound(t - m.heap[cur].startTime,
                                                        MsPerMinute)),
                            !.isActive = FALSE]]
              ELSE m
    IN IF m1.sessionTimeout # Null
       THEN [m1 EXCEPT !.timers = ClearTimeout(@, m1.sessionTimeout),
                       !.sessionTimeout = Null]
       ELSE m1

EndCurrentSession(m, t) ==
    LET cur == m.currentSession
        m1 == IF HasActiveSession(m)
              THEN [m EXCEPT !.heap[cur] =
                        [m.heap[cur] EXCEPT
                            !.endTime = Some(t),
                            !.duration = Some(MathRound(t - m.heap[cur].startTime,
                                                        MsPerMinute)),
                            !.isActive = FALSE]]
              ELSE m
    IN IF m1.sessionTimeout # Null
       THEN [m1 EXCEPT !.timers = ClearTimeout(@, m1.sessionTimeout),
                       !.sessionTimeout = Null]
       ELSE m1

\* Mutation: the previous session is not ended before a new one is opened.
StartNewSessionNoEnd(m, t) ==
    LET ref == Len(m.heap) + 1
    IN [m EXCEPT !.heap = Append(@, NewSession(t)),
                 !.currentSession = ref,
                 !.sessions = Append(@, ref)]

\* Mutation: a current session that exists is reopened instead of replaced.
StartNewSessionReopen(m, t) ==
    LET m1 == EndCurrentSession(m, t)
        ref == Len(m1.heap) + 1
    IN IF m1.currentSession # Null
       THEN [m1 EXCEPT !.heap[m1.currentSession] =
                [@ EXCEPT !.isActive = TRUE, !.endTime = Undefined,
                          !.duration = Undefined]]
       ELSE [m1 EXCEPT !.heap = Append(@, NewSession(t)),
                       !.currentSession = ref,
                       !.sessions = Append(@, ref)]

StartNewSession(m, t) ==
    LET m1 == EndCurrentSession(m, t)
        ref == Len(m1.heap) + 1
    IN [m1 EXCEPT !.heap = Append(@, NewSession(t)),
                  !.currentSession = ref,
                  !.sessions = Append(@, ref)]

\* Mutation: only a missing session is started, a closed one is kept.
EnsureSessionStartedIfNull(m, t) ==
    IF m.currentSession = Null THEN StartNewSession(m, t) ELSE m

EnsureSessionStarted(m, t) ==
    IF ~HasActiveSession(m) THEN StartNewSession(m, t) ELSE m

AddEntryToCurrentSession(m, entry) ==
    IF HasActiveSession(m)
    THEN [m EXCEPT !.heap[m.currentSession].stressEvents = Append(@, entry)]
    ELSE m

\* Mutation: the pending timer is not cancelled before the new one is set.
ResetSessionTimeoutNoClear(m, t) == SetTimeout(m, t)

\* Mutation: a pending timer is kept instead of being rescheduled.
ResetSessionTimeoutKeepPending(m, t) ==
    IF m.sessionTimeout # Null THEN m ELSE SetTimeout(m, t)

ResetSessionTimeout(m, t) ==
    LET m1 == IF m.sessionTimeout # Null
              THEN [m EXCEPT !.timers = ClearTimeout(@, m.sessionTimeout)]
              ELSE m
    IN SetTimeout(m1, t)

----------------------------------------------------------------------------
(* Public methods *)

\* Mutation: the entry is put at the front of the flat list (unshift for push).
RecordEntryUnshift(m, entry, t) ==
    ResetSessionTimeout(
        AddEntryToCurrentSession([m EXCEPT !.entries = <<entry>> \o @], entry), t)

\* Mutation: the entry is recorded without resetting the inactivity timer.
RecordEntryNoReset(m, entry, t) ==
    AddEntryToCurrentSession([m EXCEPT !.entries = Append(@, entry)], entry)

\* entries.push(entry); addEntryToCurrentSession(entry); resetSessionTimeout()
RecordEntry(m, entry, t) ==
    ResetSessionTimeout(
        AddEntryToCurrentSession([m EXCEPT !.entries = Append(@, entry)], entry), t)

ReportStress(m, t) ==
    LET m1 == EnsureSessionStarted(m, t)
        m2 == [m1 EXCEPT !.currentLevel = "high"]
    IN RecordEntry(m2, StressEntry(t, "high", "Manual stress report"), t)

ReportCalm(m, t) ==
    LET m1 == EnsureSessionStarted(m, t)
        m2 == [m1 EXCEPT !.currentLevel = "low"]
    IN RecordEntry(m2, StressEntry(t, "low", "Manual calm report"), t)

\* The conversion of a GSR reading to a stress level.
GsrLevel(gsrValue) ==
    IF gsrValue > 80 THEN "high"
    ELSE IF gsrValue > 40 THEN "medium"
    ELSE "low"

UpdateFromHardware(m, gsrValue, t) ==
    LET m1 == EnsureSessionStarted(m, t)
        level == GsrLevel(gsrValue)
        m2 == [m1 EXCEPT !.currentLevel = level]
    IN RecordEntry(m2, StressEntry(t, level, <<"GSR: ", gsrValue>>), t)

\* Mutation: the history is emptied and the level is left as it was.
ClearHistoryKeepLevel(m, t) ==
    LET m1 == [m EXCEPT !.entries = << >>]
        m2 == EndCurrentSession(m1, t)
    IN [m2 EXCEPT !.sessions = << >>]

\* Mutation: the history is emptied without ending the current session.
ClearHistoryNoEnd(m, t) ==
    [m EXCEPT !.entries = << >>, !.currentLevel = "low", !.sessions = << >>]

ClearHistory(m, t) ==
    LET m1 == [m EXCEPT !.entries = << >>, !.currentLevel = "low"]
        m2 == EndCurrentSession(m1, t)
    IN [m2 EXCEPT !.sessions = << >>]

\* What the accessors return to a callback that reads the monitor m.
Readable(m) ==
    [level |-> m.currentLevel, entries |-> m.entries, timers |-> m.timers]

\* The callbacks that call back into the monitor before they return.
ReentrantKinds == {"callsReportCalm", "callsClearHistory"}

\* this.onStressLevelChanged(newLevel, previousLevel): the callback runs on
\* the caller's stack, at the caller's instant; it returns, throws, or calls
\* a public method of the monitor and then returns.
InvokeCallback(m, newLevel, previousLevel) ==
    LET m1 == [m EXCEPT !.calls = Append(@, <<newLevel, previousLevel>>),
                        !.seen = Append(@, Readable(m)),
                        !.threw = (m.onStressLevelChanged = "throws")]
    IN CASE m.onStressLevelChanged = "callsReportCalm" ->
                ReportCalm([m1 EXCEPT !.inner = Append(@, "reportCalm")],
                           m1.time)
         [] m.onStressLevelChanged = "callsClearHistory" ->
                ClearHistory([m1 EXCEPT !.inner = Append(@, "clearHistory")],
                             m1.time)
         [] OTHER -> m1

\* Mutation: the level is stored only when the callback has been invoked.
NotifyStressLevelChangeInsideIf(m, newLevel) ==
    LET previousLevel == m.currentLevel
    IN IF m.onStressLevelChanged # "undefined" /\ newLevel # previousLevel
       THEN LET m1 == InvokeCallback(m, newLevel, previousLevel)
            IN IF m1.threw THEN m1 ELSE [m1 EXCEPT !.currentLevel = newLevel]
       ELSE m

\* Mutation: the callback is invoked whether or not the level changes.
NotifyStressLevelChangeAlways(m, newLevel) ==
    LET previousLevel == m.currentLevel
        m1 == IF m.onStressLevelChanged # "undefined"
              THEN InvokeCallback(m, newLevel, previousLevel)
              ELSE m
    IN IF m1.threw THEN m1 ELSE [m1 EXCEPT !.currentLevel = newLevel]

\* Mutation: the level is stored before the callback is invoked.
NotifyStressLevelChangeLevelFirst(m, newLevel) ==
    LET previousLevel == m.currentLevel
        m1 == [m EXCEPT !.currentLevel = newLevel]
    IN IF m.onStressLevelChanged # "undefined" /\ newLevel # previousLevel
       THEN InvokeCallback(m1, newLevel, previousLevel)
       ELSE m1

NotifyStressLevelChange(m, newLevel) ==
    LET previousLevel == m.currentLevel
        m1 == IF m.onStressLevelChanged # "undefined" /\ newLevel # previousLevel
              THEN InvokeCallback(m, newLevel, previousLevel)
              ELSE m
    IN IF m1.threw THEN m1 ELSE [m1 EXCEPT !.currentLevel = newLevel]

ReportStressWithCallback(m, t) ==
    LET m1 == EnsureSessionStarted(m, t)
        m2 == RecordEntry(m1, StressEntry(t, "high", "Manual stress report"), t)
    IN NotifyStressLevelChange(m2, "high")

ReportCalmWithCallback(m, t) ==
    LET m1 == EnsureSessionStarted(m, t)
        m2 == RecordEntry(m1, StressEntry(t, "low", "Manual calm report"), t)
    IN NotifyStressLevelChange(m2, "low")

\* Mutation: the new session is opened without scheduling its timer.
StartCodingSessionNoTimer(m, t) == StartNewSession(m, t)

StartCodingSession(m, t) == ResetSessionTimeout(StartNewSession(m, t), t)

EndCodingSession(m, t) == EndCurrentSession(m, t)

SetStressLevelChangeCallback(m, callback) ==
    [m EXCEPT !.onStressLevelChanged = callback]

\* Mutation: the timer's arrow function does not end the session.
FireTimeoutNoEnd(m, timer, t) ==
    [m EXCEPT !.timers = @ \ {timer}, !.sessionTimeout = Null]

\* The runtime takes a due timer off its table and runs the arrow function
\* that resetSessionTimeout passed to setTimeout.
FireTimeout(m, timer, t) ==
    EndCurrentSession([m EXCEPT !.timers = @ \ {timer}], t)

\* Read accessors
GetCurrentLevel == currentLevel
GetAllEntries == entries
GetCurrentSession == currentSession
GetAllSessions == [i \in 1..Len(sessions) |-> heap[sessions[i]]]

GetTodaysEntries ==
    LET today == StartOfDay(now)
    IN SelectSeq(entries, LAMBDA entry : entry.timestamp >= today)

\* Mutation: a session started exactly at midnight is not of today.
GetTodaysSessionsAfterMidnight ==
    LET today == StartOfDay(now)
    IN SelectSeq(GetAllSessions, LAMBDA session : session.startTime > today)

GetTodaysSessions ==
    LET today == StartOfDay(now)
    IN SelectSeq(GetAllSessions, LAMBDA session : session.startTime >= today)

GetCurrentSessionDuration ==
    IF currentSession = Null \/ ~heap[currentSession].isActive
    THEN 0
    ELSE MathRound(now - heap[currentSession].startTime, MsPerMinute)

\* Mutation: the active session adds nothing to today's total.
GetTotalCodingTimeTodayClosedOnly ==
    LET todaysSessions == GetTodaysSessions
        Minutes(session) ==
            IF session.duration # Undefined /\ session.duration[1] # 0
            THEN session.duration[1]
            ELSE 0
    IN Sum([i \in 1..Len(todaysSessions) |-> Minutes(todaysSessions[i])])

\* total += session.duration when that is set and not 0, else
\* total += getCurrentSessionDuration() when the session is active.
GetTotalCodingTimeToday ==
    LET todaysSessions == GetTodaysSessions
        Minutes(session) ==
            IF session.duration # Undefined /\ session.duration[1] # 0
            THEN session.duration[1]
            ELSE IF session.isActive THEN GetCurrentSessionDuration
            ELSE 0
    IN Sum([i \in 1..Len(todaysSessions) |-> Minutes(todaysSessions[i])])

\* session.duration || 0
DurationOrZero(session) ==
    IF session.duration # Undefined THEN session.duration[1] ELSE 0

\* Mutation: every closed session counts as completed, also one of 0 minutes.
GetSessionStatsAllClosed ==
    LET completedSessions ==
            SelectSeq(GetAllSessions, LAMBDA s : s.duration # Undefined)
        durations == [i \in 1..Len(completedSessions) |->
                         DurationOrZero(completedSessions[i])]
    IN IF Len(completedSessions) = 0
       THEN [averageSessionLength |-> 0, totalSessions |-> 0, longestSession |-> 0]
       ELSE [averageSessionLength |->
                 MathRound(Sum(durations), Len(completedSessions)),
             totalSessions |-> Len(completedSessions),
             longestSession |-> Max(durations)]

GetSessionStats ==
    LET completedSessions ==
            SelectSeq(GetAllSessions,
                      LAMBDA s : s.duration # Undefined /\ s.duration[1] > 0)
        durations == [i \in 1..Len(completedSessions) |->
                         DurationOrZero(completedSessions[i])]
    IN IF Len(completedSessions) = 0
       THEN [averageSessionLength |-> 0, totalSessions |-> 0, longestSession |-> 0]
       ELSE [averageSessionLength |->
                 MathRound(Sum(durations), Len(completedSessions)),
             totalSessions |-> Len(completedSessions),
             longestSession |-> Max(durations)]


----------------------------------------------------------------------------
(* The state machine *)

Init ==
    /\ entries = << >>
    /\ currentLevel = "low"
    /\ currentSession = Null
    /\ sessions = << >>
    /\ heap = << >>
    /\ sessionTimeout = Null
    /\ timers = {}
    /\ onStressLevelChanged = "undefined"
    /\ now = 0
    /\ lastOp = [name |-> "init", outcome |-> "returned", from |-> "low"]
    /\ cbLog = << >>
    /\ cbSeen = << >>
    /\ reportLog = << >>

\* Garbage collection: the session objects that `sessions` or
\* `currentSession` still reference, renumbered in allocation order.
Live(m) == {m.sessions[i] : i \in 1..Len(m.sessions)} \cup ({m.currentSession} \ {Null})
Rank(live, ref) == Cardinality({j \in live : j <= ref})
Collect(m) ==
    LET live == Live(m)
    IN IF live = 1..Len(m.heap) THEN m
       ELSE [m EXCEPT
               !.heap = [k \in 1..Cardinality(live) |->
                            m.heap[CHOOSE ref \in live : Rank(live, ref) = k]],
               !.sessions = [i \in 1..Len(m.sessions) |-> Rank(live, m.sessions[i])],
               !.currentSession = IF m.currentSession = Null THEN Null
                                  ELSE Rank(live, m.currentSession)]

\* The state the event `name` leaves behind, m being the monitor after it.
\* The report log after a call of the method name: a report adds its level,
\* clearHistory empties the log.
Logged(log, name, level) ==
    IF name \in ReportOps THEN Append(log, level)
    ELSE IF name = "clearHistory" THEN << >>
    ELSE log

Commit(m, name, level) ==
    LET c == Collect(m)
        outer == Logged(reportLog, name, level)
    IN
    /\ entries' = c.entries
    /\ currentLevel' = c.currentLevel
    /\ currentSession' = c.currentSession
    /\ sessions' = c.sessions
    /\ heap' = c.heap
    /\ sessionTimeout' = c.sessionTimeout
    /\ timers' = c.timers
    /\ onStressLevelChanged' = c.onStressLevelChanged
    /\ cbLog' = c.calls
    /\ cbSeen' = c.seen
    /\ lastOp' = [name |-> name, outcome |-> IF m.threw THEN "threw" ELSE "returned",
                from |-> currentLevel]
    /\ reportLog' = IF c.inner = << >> THEN outer
                    ELSE Logged(outer, c.inner[1], "low")

\* A new session can be allocated, and any timer scheduled now is due in time.
CanStart == Len(sessions) < MaxSessions /\ now + SessionTimeoutMs <= MaxNow

CanReport ==
    /\ Len(entries) < MaxReports
    /\ now + SessionTimeoutMs <= MaxNow
    /\ HasActiveSession(Monitor) \/ Len(sessions) < MaxSessions

DoReportStress ==
    /\ CanReport
    /\ Commit(ReportStress(Monitor, now), "reportStress", "high")
    /\ UNCHANGED now

DoReportCalm ==
    /\ CanReport
    /\ Commit(ReportCalm(Monitor, now), "reportCalm", "low")
    /\ UNCHANGED now

DoUpdateFromHardware ==
    /\ CanReport
    /\ \E gsrValue \in GsrValues :
          Commit(UpdateFromHardware(Monitor, gsrValue, now),
                 "updateFromHardware", GsrLevel(gsrValue))
    /\ UNCHANGED now

DoReportStressWithCallback ==
    /\ CanReport
    /\ Commit(ReportStressWithCallback(Monitor, now), "reportStressWithCallback", "high")
    /\ UNCHANGED now

DoReportCalmWithCallback ==
    /\ CanReport
    /\ Commit(ReportCalmWithCallback(Monitor, now), "reportCalmWithCallback", "low")
    /\ UNCHANGED now

DoClearHistory ==
    /\ Commit(ClearHistory(Monitor, now), "clearHistory", "none")
    /\ UNCHANGED now

DoStartCodingSession ==
    /\ CanStart
    /\ Commit(StartCodingSession(Monitor, now), "startCodingSession", "none")
    /\ UNCHANGED now

DoEndCodingSession ==
    /\ Commit(EndCodingSession(Monitor, now), "endCodingSession", "none")
    /\ UNCHANGED now

DoSetStressLevelChangeCallback ==
    /\ \E callback \in CallbackKinds \ {"undefined"} :
          Commit(SetStressLevelChangeCallback(Monitor, callback),
                 "setStressLevelChangeCallback", "none")
    /\ UNCHANGED now

TimerFires ==
    /\ \E timer \in timers :
          /\ now >= timer.due
          /\ Commit(FireTimeout(Monitor, timer, now), "timeout", "none")
    /\ UNCHANGED now

Tick ==
    /\ \E d \in TickSteps :
          /\ now + d <= MaxNow
          /\ now' = now + d
    /\ lastOp' = [name |-> "tick", outcome |-> "returned", from |-> currentLevel]
    /\ cbLog' = << >>
    /\ cbSeen' = << >>
    /\ UNCHANGED <<entries, currentLevel, currentSession, sessions, heap,
                   sessionTimeout, timers, onStressLevelChanged, reportLog>>

Next ==
    \/ DoReportStress
    \/ DoReportCalm
    \/ DoUpdateFromHardware
    \/ DoReportStressWithCallback
    \/ DoReportCalmWithCallback
    \/ DoClearHistory
    \/ DoStartCodingSession
    \/ DoEndCodingSession
    \/ DoSetStressLevelChangeCallback
    \/ TimerFires
    \/ Tick

Spec == Init /\ [][Next]_vars

\* The same machine with time passing and due timers firing: the runtime
\* runs a due timer's function, and the clock does not stop.  Its lists are
\* kept shorter, within LiveMaxReports and LiveMaxSessions.
LiveBound ==
    /\ Len(entries) <= LiveMaxReports
    /\ Len(sessions) <= LiveMaxSessions

LiveNext ==
    \/ DoReportStress /\ LiveBound'
    \/ DoReportCalm /\ LiveBound'
    \/ DoUpdateFromHardware /\ LiveBound'
    \/ DoReportStressWithCallback /\ LiveBound'
    \/ DoReportCalmWithCallback /\ LiveBound'
    \/ DoClearHistory
    \/ DoStartCodingSession /\ LiveBound'
    \/ DoEndCodingSession
    \/ DoSetStressLevelChangeCallback
    \/ TimerFires
    \/ Tick

LiveSpec == Init /\ [][LiveNext]_vars /\ WF_vars(Tick) /\ WF_vars(TimerFires)

\* The same machine on a clock read at instants that are not whole minutes:
\* half a minute less one millisecond, half a minute and a minute and a half
\* after the hour and after the half hour.  Its lists are kept within
\* RoundMaxReports and RoundMaxSessions, and no callback is registered.
RoundingOffsets == {0, MsPerMinute \div 2 - 1, MsPerMinute \div 2,
                    MsPerMinute + MsPerMinute \div 2}
Instants == {base + off : base \in {0, SessionTimeoutMs}, off \in RoundingOffsets}

TickFine ==
    /\ \E t \in Instants :
          /\ t > now
          /\ now' = t
    /\ lastOp' = [name |-> "tick", outcome |-> "returned", from |-> currentLevel]
    /\ cbLog' = << >>
    /\ cbSeen' = << >>
    /\ UNCHANGED <<entries, currentLevel, currentSession, sessions, heap,
                   sessionTimeout, timers, onStressLevelChanged, reportLog>>

RoundBound ==
    /\ Len(entries) <= RoundMaxReports
    /\ Len(sessions) <= RoundMaxSessions

RoundNext ==
    \/ DoReportStress /\ RoundBound'
    \/ DoReportCalm /\ RoundBound'
    \/ DoUpdateFromHardware /\ RoundBound'
    \/ DoReportStressWithCallback /\ RoundBound'
    \/ DoReportCalmWithCallback /\ RoundBound'
    \/ DoClearHistory
    \/ DoStartCodingSession /\ RoundBound'
    \/ DoEndCodingSession
    \/ TimerFires
    \/ TickFine

RoundSpec == Init /\ [][RoundNext]_vars

\* The same machine started in a state that earlier use has left: up to
\* MaxHistory sessions that followed each other, of HistoryMinutes minutes
\* each, opened by startCodingSession; the last one ended by endCodingSession
\* at the instant 0, or still active after OpenMinutes minutes with its timer
\* pending.  No callback is registered, and the lists are kept within
\* StatsMaxReports and MaxHistory.
HistoryMinutes == {0, 5, 10, 15, 20, 30}
OpenMinutes == {5}
Histories == UNION {[1..n -> HistoryMinutes] : n \in 0..MaxHistory}

HistoryStart(ds, i) == 0 - MsPerMinute * Sum(SubSeq(ds, i, Len(ds)))

HistorySession(ds, i, open) ==
    IF open /\ i = Len(ds)
    THEN NewSession(HistoryStart(ds, i))
    ELSE Closed(NewSession(HistoryStart(ds, i)),
                HistoryStart(ds, i) + ds[i] * MsPerMinute)

StatsInit ==
    \E ds \in Histories, open \in BOOLEAN :
        /\ open => (Len(ds) > 0 /\ ds[Len(ds)] \in OpenMinutes)
        /\ entries = << >>
        /\ currentLevel = "low"
        /\ heap = [i \in 1..Len(ds) |-> HistorySession(ds, i, open)]
        /\ sessions = [i \in 1..Len(ds) |-> i]
        /\ currentSession = IF Len(ds) = 0 THEN Null ELSE Len(ds)
        /\ sessionTimeout = IF open THEN 1 ELSE Null
        /\ timers = IF open
                    THEN FreshWindow(1, HistoryStart(ds, Len(ds)))
                    ELSE {}
        /\ onStressLevelChanged = "undefined"
        /\ now = 0
        /\ lastOp = [name |-> "init", outcome |-> "returned", from |-> "low"]
        /\ cbLog = << >>
        /\ cbSeen = << >>
        /\ reportLog = << >>

StatsBound ==
    /\ Len(entries) <= StatsMaxReports
    /\ Len(sessions) <= MaxHistory

StatsNext ==
    \/ DoReportStress /\ StatsBound'
    \/ DoReportCalm /\ StatsBound'
    \/ DoUpdateFromHardware /\ StatsBound'
    \/ DoReportStressWithCallback /\ StatsBound'
    \/ DoReportCalmWithCallback /\ StatsBound'
    \/ DoClearHistory
    \/ DoStartCodingSession /\ StatsBound'
    \/ DoEndCodingSession
    \/ TimerFires
    \/ Tick

StatsSpec == StatsInit /\ [][StatsNext]_vars

\* The same machine when every callback registered returns normally.
DoSetReturningCallback ==
    /\ Commit(SetStressLevelChangeCallback(Monitor, "returns"),
              "setStressLevelChangeCallback", "none")
    /\ UNCHANGED now

ReturnsNext ==
    \/ DoReportStress
    \/ DoReportCalm
    \/ DoUpdateFromHardware
    \/ DoReportStressWithCallback
    \/ DoReportCalmWithCallback
    \/ DoClearHistory
    \/ DoStartCodingSession
    \/ DoEndCodingSession
    \/ DoSetReturningCallback
    \/ TimerFires
    \/ Tick

ReturnsSpec == Init /\ [][ReturnsNext]_vars

\* The same machine when every callback registered calls back into the
\* monitor (reportCalm or clearHistory) before it returns.
DoSetReentrantCallback ==
    /\ \E callback \in ReentrantKinds :
          Commit(SetStressLevelChangeCallback(Monitor, callback),
                 "setStressLevelChangeCallback", "none")
    /\ UNCHANGED now

ReentrantNext ==
    \/ DoReportStress
    \/ DoReportCalm
    \/ DoUpdateFromHardware
    \/ DoReportStressWithCallback
    \/ DoReportCalmWithCallback
    \/ DoClearHistory
    \/ DoStartCodingSession
    \/ DoEndCodingSession
    \/ DoSetReentrantCallback
    \/ TimerFires
    \/ Tick

ReentrantSpec == Init /\ [][ReentrantNext]_vars

\* The monitor as the extension drives it.  activate() constructs it and
\* registers a callback that launches the assistant when the new level is
\* high; the callback is an async function, so its call returns to the monitor
\* and never throws.  The commands call the callback-bearing reports,
\* clearHistory, startCodingSession and, when a session is active,
\* endCodingSession.

\* Mutation: the extension's callback launches on every change of level.
LaunchesOnAnyChange(newLevel, previousLevel) == TRUE

\* if (newLevel === 'high') { ... RecipeExecutor.executeStressDebugRecipe(...) }
ExtensionCallbackLaunches(newLevel, previousLevel) == newLevel = "high"

\* The launches of the assistant made by the callback invocations `calls`.
Launches(calls) ==
    {i \in 1..Len(calls) : ExtensionCallbackLaunches(calls[i][1], calls[i][2])}

ExtInit ==
    /\ entries = << >>
    /\ currentLevel = "low"
    /\ currentSession = Null
    /\ sessions = << >>
    /\ heap = << >>
    /\ sessionTimeout = Null
    /\ timers = {}
    /\ onStressLevelChanged = "returns"
    /\ now = 0
    /\ lastOp = [name |-> "init", outcome |-> "returned", from |-> "low"]
    /\ cbLog = << >>
    /\ cbSeen = << >>
    /\ reportLog = << >>

ReportStressCommand == DoReportStressWithCallback
ReportCalmCommand == DoReportCalmWithCallback
ClearHistoryCommand == DoClearHistory
StartSessionCommand == DoStartCodingSession
EndSessionCommand == HasActiveSession(Monitor) /\ DoEndCodingSession

ExtNext ==
    \/ ReportStressCommand
    \/ ReportCalmCommand
    \/ ClearHistoryCommand
    \/ StartSessionCommand
    \/ EndSessionCommand
    \/ TimerFires
    \/ Tick

ExtSpec == ExtInit /\ [][ExtNext]_vars

----------------------------------------------------------------------------
(* Properties *)

Last(seq) == seq[Len(seq)]
ReportStep == lastOp'.name \in ReportOps
CallbackReportOps == {"reportStressWithCallback", "reportCalmWithCallback"}
ActiveInList == {i \in 1..Len(sessions) : heap[sessions[i]].isActive}

\* C1: in every reachable state at most one session of the session list has
\* isActive = true.
C1_AtMostOneActive == Cardinality(ActiveInList) <= 1

\* C1 witness: a second session was started while the first was open; the list
\* holds the closed first session and the active second one.
C1_Witness ==
    /\ lastOp.name = "startCodingSession"
    /\ Len(sessions) = 2
    /\ ~heap[sessions[1]].isActive
    /\ heap[sessions[1]].endTime = Some(heap[sessions[2]].startTime)
    /\ heap[sessions[2]].isActive

\* C2: every report appends exactly one entry, stamped now, to the flat list
\* and the same entry to the event list of the active session, which is the
\* session that was active before the call or else exactly one session newly
\* started by the call; every session that was closed before the call keeps
\* all its fields, its event list included.
C2_ReportAppendsToActive ==
    [][ReportStep =>
        /\ Len(entries') = Len(entries) + 1
        /\ SubSeq(entries', 1, Len(entries)) = entries
        /\ Last(entries').timestamp = now
        /\ Last(entries').level = Last(reportLog')
        /\ Len(sessions') > 0
        /\ currentSession' = Last(sessions')
        /\ IF HasActiveSession(Monitor)
           THEN /\ Len(sessions') = Len(sessions)
                /\ Last(GetAllSessions') =
                      [Last(GetAllSessions) EXCEPT
                          !.stressEvents = Append(@, Last(entries'))]
           ELSE /\ Len(sessions') = Len(sessions) + 1
                /\ Last(GetAllSessions') =
                      [NewSession(now) EXCEPT !.stressEvents = <<Last(entries')>>]
        /\ \A i \in 1..Len(sessions) :
              ~GetAllSessions[i].isActive => GetAllSessions'[i] = GetAllSessions[i]
    ]_vars

\* C2 witness: a report made after the first session was closed: its entry is
\* in a second session and the closed session still holds only its own entry.
C2_Witness ==
    /\ lastOp.name \in ReportOps
    /\ Len(entries) = 2
    /\ Len(sessions) = 2
    /\ ~heap[sessions[1]].isActive
    /\ heap[sessions[1]].stressEvents = <<entries[1]>>
    /\ heap[sessions[2]].isActive
    /\ heap[sessions[2]].stressEvents = <<entries[2]>>

\* C3: after a report operation of any variant has returned, getCurrentLevel()
\* is the level that was reported.
C3_LevelIsReported ==
    (lastOp.name \in ReportOps /\ lastOp.outcome = "returned")
        => GetCurrentLevel = Last(reportLog)

\* C3 witness: a callback-bearing calm report returned after its registered
\* callback was invoked (the level before it was not low).
C3_Witness ==
    /\ lastOp.name = "reportCalmWithCallback" /\ lastOp.outcome = "returned"
    /\ onStressLevelChanged = "returns"
    /\ Len(cbLog) = 1
    /\ GetCurrentLevel = "low"

\* C4: the flat entry list has one entry per report call made since the
\* monitor was constructed or last cleared, and the i-th entry carries the
\* level of the i-th of these calls (so, in a run without clearHistory, of
\* the i-th call).
C4_EntriesMatchCalls ==
    /\ Len(GetAllEntries) = Len(reportLog)
    /\ \A i \in 1..Len(reportLog) : GetAllEntries[i].level = reportLog[i]

\* C4 witness: two reports of different levels, the second one after the
\* session of the first was ended.
C4_Witness ==
    /\ Len(GetAllEntries) = 2
    /\ GetAllEntries[1].level # GetAllEntries[2].level
    /\ Len(sessions) = 2
    /\ heap[sessions[2]].stressEvents = <<GetAllEntries[2]>>

\* C5: a callback-bearing report invokes the registered callback exactly once,
\* with (reported level, previous current level), when the two differ, and not
\* at all when they are equal (or when no callback is registered); the two
\* arguments of an invocation always differ.
C5_CallbackOnChangeOnly ==
    [][lastOp'.name \in CallbackReportOps =>
        /\ cbLog' = IF onStressLevelChanged # "undefined"
                       /\ Last(reportLog') # currentLevel
                    THEN << <<Last(reportLog'), currentLevel>> >>
                    ELSE << >>
        /\ \A i \in 1..Len(cbLog') : cbLog'[i][1] # cbLog'[i][2]
    ]_vars

\* C5 witness: reportStressWithCallback at level medium invoked the callback
\* once, with (high, medium).
C5_Witness ==
    /\ lastOp.name = "reportStressWithCallback"
    /\ cbLog = << <<"high", "medium">> >>

\* C5 second witness state: the report that repeats the current level makes
\* no invocation although a callback is registered.
C5_NoCallWitness ==
    /\ lastOp.name = "reportStressWithCallback"
    /\ onStressLevelChanged # "undefined"
    /\ Len(entries) = 2
    /\ entries[1].level = "high"
    /\ cbLog = << >>

\* The time of the last report or explicit start of session s: the start of
\* the session or the latest of its events.
LastActivity(s) ==
    LET times == {s.startTime} \cup
                 {s.stressEvents[i].timestamp : i \in 1..Len(s.stressEvents)}
    IN CHOOSE t \in times : \A u \in times : u <= t

\* The fields of the monitor and the runtime's timers, as a tuple.
MonitorFields(m) ==
    <<m.entries, m.currentLevel, m.currentSession, m.sessions, m.heap,
      m.sessionTimeout, m.timers, m.onStressLevelChanged>>

\* C6 (as claimed): when the callback throws during a callback-bearing report,
\* the monitor is left as if it had returned: the new entry is the last of the
\* flat list and of the active session, the timer is reset to a full window,
\* and getCurrentLevel() is the reported level.
C6_ThrowLeavesReportedState ==
    lastOp.outcome = "threw" =>
        /\ Len(entries) > 0
        /\ Last(entries).level = Last(reportLog)
        /\ Last(entries).timestamp = now
        /\ HasActiveSession(Monitor)
        /\ Last(heap[currentSession].stressEvents) = Last(entries)
        /\ timers = FreshWindow(sessionTimeout, now)
        /\ GetCurrentLevel = Last(reportLog)

\* C6, the part the code keeps: after a throw the entry is recorded in the
\* list and the session and the timer is reset; only the level is stale.
C6_ThrowKeepsEntryAndTimer ==
    lastOp.outcome = "threw" =>
        /\ Len(entries) > 0
        /\ Last(entries).level = Last(reportLog)
        /\ HasActiveSession(Monitor)
        /\ Last(heap[currentSession].stressEvents) = Last(entries)
        /\ timers = FreshWindow(sessionTimeout, now)
        /\ GetCurrentLevel # Last(reportLog)

\* A step that is a report or an explicit session start.
ActivityStep == lastOp'.name \in ReportOps \cup {"startCodingSession"}

\* C7: while a session is active exactly one timer is pending, due one window
\* after the session's last activity; when it fires, the monitor is left
\* exactly as endCodingSession would leave it at that instant: the session is
\* inactive, its end time is the firing time, its duration the rounded minutes
\* since its start, and no timer is pending.  With time passing and due
\* timers firing, no session stays active for ever without further activity
\* (a report or an explicit start).
C7_TimeoutEndsSession ==
    /\ [](HasActiveSession(Monitor) =>
            timers = FreshWindow(sessionTimeout,
                                 LastActivity(heap[currentSession])))
    /\ [][lastOp'.name = "timeout" =>
            /\ MonitorFields(Monitor') =
                  MonitorFields(Collect(EndCodingSession(Monitor, now)))
            /\ timers' = {}
            /\ sessionTimeout' = Null
            /\ HasActiveSession(Monitor) =>
                  /\ currentSession' = currentSession
                  /\ heap'[currentSession] =
                        [heap[currentSession] EXCEPT
                            !.isActive = FALSE,
                            !.endTime = Some(now),
                            !.duration =
                                Some(MathRound(now - heap[currentSession].startTime,
                                               MsPerMinute))]
       ]_vars
    /\ \/ []<>(~HasActiveSession(Monitor))
       \/ []<><<ActivityStep>>_vars

\* C7 witness: the timer has just fired and closed a session that had an
\* event; the end time is the firing time and the duration a whole window
\* or more.
C7_Witness ==
    /\ lastOp.name = "timeout"
    /\ currentSession # Null
    /\ ~heap[currentSession].isActive
    /\ Len(heap[currentSession].stressEvents) > 0
    /\ heap[currentSession].endTime = Some(now)
    /\ heap[currentSession].duration # Undefined
    /\ heap[currentSession].duration[1] >= SESSION_TIMEOUT_MINUTES

\* C8: a timer firing closes a session only when a full window has passed
\* since the session's last report or start, and every report and every
\* startCodingSession leaves exactly one pending timer, due a full window
\* after the call.
C8_NoEarlyTimeout ==
    /\ [][(lastOp'.name = "timeout" /\ HasActiveSession(Monitor)) =>
            now >= LastActivity(heap[currentSession]) + SessionTimeoutMs]_vars
    /\ [][lastOp'.name \in ReportOps \cup {"startCodingSession"} =>
            timers' = FreshWindow(sessionTimeout', now)]_vars

\* C8 witness: a session open for a window or more is still active, because
\* its last activity is less than a window ago.
C8_Witness ==
    /\ lastOp.name = "tick"
    /\ HasActiveSession(Monitor)
    /\ now >= heap[currentSession].startTime + SessionTimeoutMs
    /\ now < LastActivity(heap[currentSession]) + SessionTimeoutMs
    /\ timers # {}

\* C9: in every reachable state at most one timer is pending, and it is the
\* one whose handle the monitor holds.
C9_AtMostOneTimer ==
    /\ Cardinality(timers) <= 1
    /\ \A timer \in timers : timer.id = sessionTimeout

\* C9 witness: a second report in the same session, later than the first,
\* has rescheduled the timer: one timer is pending, due after the second.
C9_Witness ==
    /\ lastOp.name \in ReportOps
    /\ HasActiveSession(Monitor)
    /\ Len(heap[currentSession].stressEvents) = 2
    /\ heap[currentSession].stressEvents[1].timestamp < now
    /\ timers = FreshWindow(sessionTimeout, now)

\* C10: endCodingSession and clearHistory leave no timer pending, and
\* startCodingSession leaves only the timer it schedules itself; so every
\* pending timer belongs to the active current session, and a firing timer
\* was scheduled no earlier than the start of the session it closes.
C10_NoStaleTimer ==
    /\ [][lastOp'.name \in {"endCodingSession", "clearHistory"} =>
            (timers' = {} /\ sessionTimeout' = Null)]_vars
    /\ [][lastOp'.name = "startCodingSession" =>
            /\ Cardinality(timers') = 1
            /\ \A timer \in timers' :
                  timer.due - SessionTimeoutMs = heap'[currentSession'].startTime]_vars
    /\ [](\A timer \in timers :
            /\ HasActiveSession(Monitor)
            /\ timer.due - SessionTimeoutMs >= heap[currentSession].startTime)
    /\ [][(lastOp'.name = "timeout" /\ HasActiveSession(Monitor)) =>
            \A timer \in timers :
                timer.due - SessionTimeoutMs >= heap[currentSession].startTime]_vars

\* C10 witness: startCodingSession closed a session that had a pending timer
\* from an earlier instant; the only timer pending now is the new session's.
C10_Witness ==
    /\ lastOp.name = "startCodingSession"
    /\ Len(sessions) = 2
    /\ ~heap[sessions[1]].isActive
    /\ LastActivity(heap[sessions[1]]) < now
    /\ heap[sessions[1]].endTime = Some(now)
    /\ timers = FreshWindow(sessionTimeout, now)

\* C11: startCodingSession appends exactly one session to the list, a new one
\* with start = now, no events and isActive = true, which becomes the current
\* session; the sessions already in the list stay at their places, unchanged
\* except that the one that was active is closed first (isActive false, end
\* time now, duration set); and one inactivity timer is pending afterwards.
C11_StartAppendsOne ==
    [][lastOp'.name = "startCodingSession" =>
        /\ Len(GetAllSessions') = Len(GetAllSessions) + 1
        /\ \A i \in 1..Len(GetAllSessions) :
              GetAllSessions'[i] =
                  IF HasActiveSession(Monitor) /\ sessions[i] = currentSession
                  THEN Closed(GetAllSessions[i], now)
                  ELSE GetAllSessions[i]
        /\ HasActiveSession(Monitor) =>
              /\ Len(sessions) > 0
              /\ ~GetAllSessions'[Len(sessions)].isActive
              /\ GetAllSessions'[Len(sessions)].endTime = Some(now)
              /\ GetAllSessions'[Len(sessions)].duration # Undefined
        /\ Last(GetAllSessions') = NewSession(now)
        /\ currentSession' = Last(sessions')
        /\ heap'[GetCurrentSession'] = NewSession(now)
        /\ timers' = FreshWindow(sessionTimeout', now)
    ]_vars

\* C11 witness: startCodingSession was called a quarter of an hour into an
\* active session that had an event: that session is closed with its
\* duration, and the new, empty session after it is the current one.
C11_Witness ==
    /\ lastOp.name = "startCodingSession"
    /\ Len(sessions) = 2
    /\ Len(heap[sessions[1]].stressEvents) > 0
    /\ heap[sessions[1]] = Closed([heap[sessions[1]] EXCEPT !.isActive = TRUE], now)
    /\ heap[sessions[1]].startTime < now
    /\ heap[sessions[1]].duration # Some(0)
    /\ currentSession = sessions[2]
    /\ heap[currentSession] = NewSession(now)
    /\ Cardinality(timers) = 1

\* d is elapsed milliseconds in minutes, rounded to the nearest whole
\* minute with halves rounding up: d - 1/2 <= elapsed / 60000 < d + 1/2.
NearestMinuteHalfUp(d, elapsed) ==
    /\ 2 * d * 60000 - 60000 <= 2 * elapsed
    /\ 2 * elapsed < 2 * d * 60000 + 60000

\* The examples of the claim.
RoundingExamples(d, elapsed) ==
    /\ elapsed = 29999 => d = 0
    /\ elapsed = 30000 => d = 1
    /\ elapsed = 90000 => d = 2

\* The closing step of the session that is active before the step.
ClosingOps == {"endCodingSession", "startCodingSession", "clearHistory", "timeout"}

\* C12: whenever endCodingSession, startCodingSession, clearHistory or the
\* timeout closes the active session, started at T0, at the instant T1, the
\* session keeps its start, its end time is T1 and its stored duration is
\* (T1 - T0) / 60000 rounded to the nearest whole minute, halves rounding up
\* (29999 ms gives 0, 30000 ms gives 1, 90000 ms gives 2); and every closed
\* session stores the rounded difference of its end and its start.
C12_DurationIsRounded ==
    /\ [][(HasActiveSession(Monitor) /\ lastOp'.name \in ClosingOps) =>
            LET T0 == heap[currentSession].startTime
                T1 == now
                s == IF lastOp'.name = "startCodingSession"
                     THEN GetAllSessions'[Len(sessions)]
                     ELSE heap'[GetCurrentSession']
            IN /\ ~s.isActive
               /\ s.startTime = T0
               /\ s.endTime = Some(T1)
               /\ s.duration # Undefined
               /\ NearestMinuteHalfUp(s.duration[1], T1 - T0)
               /\ RoundingExamples(s.duration[1], T1 - T0)
       ]_vars
    /\ [](\A i \in 1..Len(heap) :
            ~heap[i].isActive =>
                NearestMinuteHalfUp(heap[i].duration[1],
                                    heap[i].endTime[1] - heap[i].startTime))

\* C12 witness: endCodingSession has closed a session exactly half a minute
\* after its start, and the stored duration is one minute.
C12_Witness ==
    /\ lastOp.name = "endCodingSession"
    /\ currentSession # Null
    /\ ~heap[currentSession].isActive
    /\ heap[currentSession].endTime = Some(now)
    /\ now - heap[currentSession].startTime = 30000
    /\ heap[currentSession].duration = Some(1)

\* The present instant and the instants one step of the clock later.
LaterInstants == {now} \cup {now + d : d \in TickSteps}

\* C13: endCodingSession with no active session (none started yet, or the
\* current one closed) returns without an error and changes nothing: the
\* entries, the sessions with their end times and durations, the current
\* session, the level, the timers and the callback are as before; a second
\* endCodingSession at any later instant leaves what the first one left; and
\* getCurrentSessionDuration() is 0 whenever no session is active.
C13_EndWithoutSessionIsNoOp ==
    /\ [][(lastOp'.name = "endCodingSession" /\ ~HasActiveSession(Monitor)) =>
            /\ lastOp'.outcome = "returned"
            /\ MonitorFields(Monitor') = MonitorFields(Monitor)
            /\ GetAllSessions' = GetAllSessions
            /\ GetAllEntries' = GetAllEntries
            /\ GetCurrentLevel' = GetCurrentLevel
       ]_vars
    /\ [](\A t \in LaterInstants :
            EndCodingSession(EndCodingSession(Monitor, now), t) =
                EndCodingSession(Monitor, now))
    /\ [](~HasActiveSession(Monitor) => GetCurrentSessionDuration = 0)

\* C13 witness: endCodingSession has been called on a session that was closed
\* at an earlier instant after a quarter of an hour or more; the session
\* still has the end time and the duration of its closing.
C13_Witness ==
    /\ lastOp.name = "endCodingSession"
    /\ currentSession # Null
    /\ ~heap[currentSession].isActive
    /\ heap[currentSession].endTime # Some(now)
    /\ heap[currentSession].duration # Some(0)
    /\ Len(entries) > 0
    /\ GetCurrentSessionDuration = 0

\* C14: clearHistory, from any state, leaves getCurrentLevel() low,
\* getAllEntries(), getAllSessions() and getTodaysSessions() empty, no session
\* active and no timer pending; and as long as nothing is reported or started
\* after it (the session list stays empty) no timer is pending and no timer
\* fires.
C14_ClearLeavesEmptyMonitor ==
    /\ [][lastOp'.name = "clearHistory" =>
            /\ lastOp'.outcome = "returned"
            /\ GetCurrentLevel' = "low"
            /\ GetAllEntries' = << >>
            /\ GetAllSessions' = << >>
            /\ GetTodaysSessions' = << >>
            /\ ~HasActiveSession(Monitor')
            /\ timers' = {}
            /\ sessionTimeout' = Null
       ]_vars
    /\ [](GetAllSessions = << >> => (timers = {} /\ ~HasActiveSession(Monitor)))
    /\ [][GetAllSessions = << >> => lastOp'.name # "timeout"]_vars

\* C14 witness: clearHistory has been called while a session with a stress
\* report was active and its timer pending.
C14_Witness ==
    /\ lastOp.name = "clearHistory"
    /\ currentSession # Null
    /\ heap[currentSession].endTime = Some(now)
    /\ Len(heap[currentSession].stressEvents) > 0
    /\ Last(heap[currentSession].stressEvents).level = "high"
    /\ now < LastActivity(heap[currentSession]) + SessionTimeoutMs
    /\ GetCurrentLevel = "low"
    /\ GetAllEntries = << >>
    /\ timers = {}

\* C15 (as claimed): after clearHistory no entry and no session recorded
\* before the clear is returned by a read accessor: getAllEntries(),
\* getTodaysEntries(), getAllSessions() and getTodaysSessions() are empty and
\* getCurrentSession() is null.
C15_ClearDiscardsAll ==
    lastOp.name = "clearHistory" =>
        /\ GetAllEntries = << >>
        /\ GetTodaysEntries = << >>
        /\ GetAllSessions = << >>
        /\ GetTodaysSessions = << >>
        /\ GetCurrentSession = Null

\* C15, what the code does: the lists are empty after clearHistory, but a
\* current session that existed before the call is still returned by
\* getCurrentSession(), closed, with its start and the events recorded in it.
C15_ClearKeepsCurrentSession ==
    [][lastOp'.name = "clearHistory" =>
        /\ GetAllEntries' = << >>
        /\ GetTodaysEntries' = << >>
        /\ GetAllSessions' = << >>
        /\ GetTodaysSessions' = << >>
        /\ currentSession = Null => GetCurrentSession' = Null
        /\ currentSession # Null =>
              /\ GetCurrentSession' # Null
              /\ ~heap'[GetCurrentSession'].isActive
              /\ heap'[GetCurrentSession'].startTime = heap[currentSession].startTime
              /\ heap'[GetCurrentSession'].stressEvents =
                    heap[currentSession].stressEvents
    ]_vars

\* The places in the session list of the sessions with a positive stored
\* duration, and the stored durations with 0 at the other places.
PositiveDurations ==
    {i \in 1..Len(sessions) :
        /\ heap[sessions[i]].duration # Undefined
        /\ heap[sessions[i]].duration[1] > 0}
CountedMinutes ==
    [i \in 1..Len(sessions) |->
        IF i \in PositiveDurations THEN heap[sessions[i]].duration[1] ELSE 0]

C16_WitnessExample ==
    /\ Len(sessions) = 3
    /\ [i \in 1..Len(sessions) |-> heap[sessions[i]].duration] =
          <<Some(10), Some(20), Some(30)>>
    /\ GetSessionStats = [averageSessionLength |-> 20, totalSessions |-> 3,
                          longestSession |-> 30]

\* A second case of C16: an active session and a closed session of 0 minutes
\* are in the list and are not counted, and the average is rounded up from a
\* half (5 and 10 minutes give 8).
C16_WitnessNotCounted ==
    /\ Len(sessions) = 3
    /\ heap[sessions[1]].duration = Some(0)
    /\ heap[sessions[2]].duration = Some(15)
    /\ heap[sessions[3]].isActive
    /\ GetSessionStats = [averageSessionLength |-> 15, totalSessions |-> 1,
                          longestSession |-> 15]

\* A third case of C16: the average of 5 and 10 minutes is 8.
C16_WitnessHalf ==
    /\ [i \in 1..Len(sessions) |-> heap[sessions[i]].duration] =
          <<Some(5), Some(10)>>
    /\ GetSessionStats.averageSessionLength = 8

\* The places in the session list of today's sessions: those started at or
\* after the local midnight that begins the day of now.
TodaysPlaces ==
    {i \in 1..Len(sessions) : heap[sessions[i]].startTime >= StartOfDay(now)}
ClosedMinutesToday ==
    [i \in 1..Len(sessions) |->
        IF i \in TodaysPlaces /\ ~heap[sessions[i]].isActive
        THEN heap[sessions[i]].duration[1]
        ELSE 0]

\* C17: getTotalCodingTimeToday() is the sum of the stored durations of
\* today's closed sessions plus, when the active session is one of today's,
\* the minutes from its start to now rounded to the nearest minute; one
\* closed session of 15 minutes and an active one open for 5 minutes give 20.
C17_TotalTodayIsClosedPlusLive ==
    LET live == GetTotalCodingTimeToday - Sum(ClosedMinutesToday)
        activeToday ==
            \E i \in TodaysPlaces : heap[sessions[i]].isActive
    IN /\ activeToday =>
            /\ HasActiveSession(Monitor)
            /\ NearestMinuteHalfUp(live, now - heap[currentSession].startTime)
       /\ ~activeToday => live = 0
       /\ ( /\ Len(sessions) = 2
            /\ TodaysPlaces = {1, 2}
            /\ heap[sessions[1]].duration = Some(15)
            /\ heap[sessions[2]].isActive
            /\ now - heap[sessions[2]].startTime = 5 * 60000 )
          => GetTotalCodingTimeToday = 20

\* C17 witness: a report has been made 5 minutes into the active session,
\* which follows a closed session of 15 minutes, both of today; the total
\* is 20.
C17_Witness ==
    /\ lastOp.name \in ReportOps
    /\ Len(sessions) = 2
    /\ TodaysPlaces = {1, 2}
    /\ heap[sessions[1]].duration = Some(15)
    /\ HasActiveSession(Monitor)
    /\ currentSession = sessions[2]
    /\ now - heap[currentSession].startTime = 5 * 60000
    /\ GetCurrentSessionDuration = 5
    /\ GetTotalCodingTimeToday = 20

\* The local midnight that begins the current day: the first midnight after
\* the instant 0 once it is reached, the one a day earlier before that.
FirstMidnight == MsPerDay - TimeOfDayAtInit
LocalMidnight == IF now >= FirstMidnight THEN FirstMidnight
                 ELSE FirstMidnight - MsPerDay

\* sub holds, in the order of seq, exactly the elements of seq at the places
\* of the set keep.
IsSubsequenceAt(sub, seq, keep) ==
    /\ Len(sub) = Cardinality(keep)
    /\ \A i \in keep : sub[Cardinality({j \in keep : j <= i})] = seq[i]

\* C18: getTodaysEntries() and getTodaysSessions() return, in insertion
\* order, exactly the entries and the sessions whose timestamp or start is at
\* or after the local midnight that begins the current day; an active session
\* started before that midnight is not among today's sessions and adds
\* nothing to getTotalCodingTimeToday().
C18_TodayIsSinceLocalMidnight ==
    /\ StartOfDay(now) = LocalMidnight
    /\ IsSubsequenceAt(GetTodaysEntries, GetAllEntries,
                       {i \in 1..Len(entries) :
                           entries[i].timestamp >= LocalMidnight})
    /\ IsSubsequenceAt(GetTodaysSessions, GetAllSessions,
                       {i \in 1..Len(sessions) :
                           heap[sessions[i]].startTime >= LocalMidnight})
    /\ (HasActiveSession(Monitor) /\
            heap[currentSession].startTime < LocalMidnight) =>
          /\ \A k \in 1..Len(GetTodaysSessions) : ~GetTodaysSessions[k].isActive
          /\ GetTotalCodingTimeToday =
                Sum([k \in 1..Len(GetTodaysSessions) |->
                        GetTodaysSessions[k].duration[1]])

\* C18 witness: a session started before midnight is still active at
\* midnight, when a second report is made in it: of its two entries only the
\* second is of today, no session is of today, and today's total is 0 although
\* the session has lasted a quarter of an hour.
C18_Witness ==
    /\ lastOp.name \in ReportOps
    /\ now = LocalMidnight
    /\ HasActiveSession(Monitor)
    /\ heap[currentSession].startTime < LocalMidnight
    /\ Len(entries) = 2
    /\ GetTodaysEntries = <<entries[2]>>
    /\ GetAllSessions # << >>
    /\ GetTodaysSessions = << >>
    /\ GetCurrentSessionDuration > 0
    /\ GetTotalCodingTimeToday = 0

\* A second case of C18: a closed session of yesterday and an active session
\* started exactly at midnight; only the second is of today.
C18_WitnessAtMidnight ==
    /\ Len(sessions) = 2
    /\ heap[sessions[1]].startTime < LocalMidnight
    /\ heap[sessions[2]].startTime = LocalMidnight
    /\ GetTodaysSessions = <<heap[sessions[2]]>>

\* C19: every session of the list is either active with no end time and no
\* duration, or closed with an end time and a duration; and a closed session
\* is terminal: as long as it is in the list it stays at its place with its
\* isActive flag, start, end time, duration and events unchanged, whatever
\* the operation, and so does a closed current session until a new session
\* replaces it.
C19_ClosedSessionsAreTerminal ==
    /\ [](\A i \in 1..Len(sessions) :
            LET s == heap[sessions[i]]
            IN \/ s.isActive /\ s.endTime = Undefined /\ s.duration = Undefined
               \/ ~s.isActive /\ s.endTime # Undefined /\ s.duration # Undefined)
    /\ [][lastOp'.name # "clearHistory" =>
            \A i \in 1..Len(sessions) :
                ~GetAllSessions[i].isActive =>
                    /\ Len(sessions') >= i
                    /\ GetAllSessions'[i] = GetAllSessions[i]
       ]_vars
    /\ [][(currentSession # Null /\ ~HasActiveSession(Monitor)) =>
            \/ heap'[GetCurrentSession'] = heap[currentSession]
            \/ /\ lastOp'.name \in ReportOps \cup {"startCodingSession"}
               /\ heap'[GetCurrentSession'].startTime = now
               /\ GetAllSessions' # << >>
               /\ Last(GetAllSessions') = heap'[GetCurrentSession']
       ]_vars

\* C19 witness: a report has opened a second session after the first one was
\* closed at an earlier instant; the first is closed with its end time and
\* duration, the second is active without them.
C19_Witness ==
    /\ lastOp.name \in ReportOps
    /\ Len(sessions) = 2
    /\ ~heap[sessions[1]].isActive
    /\ heap[sessions[1]].endTime # Undefined
    /\ heap[sessions[1]].endTime # Some(now)
    /\ heap[sessions[1]].duration # Undefined
    /\ Len(heap[sessions[1]].stressEvents) > 0
    /\ heap[sessions[2]].isActive
    /\ heap[sessions[2]].endTime = Undefined
    /\ heap[sessions[2]].duration = Undefined
    /\ heap[sessions[2]].startTime = now

\* C20 (as claimed): in every state getCurrentSession() is null or is the
\* object that is the last element of getAllSessions().
C20_CurrentIsNullOrLast ==
    \/ GetCurrentSession = Null
    \/ /\ sessions # << >>
       /\ GetCurrentSession = Last(sessions)
       /\ heap[GetCurrentSession] = Last(GetAllSessions)

\* C20, what the code keeps: the current session is null, or the last of the
\* list, or, between a clearHistory and the next start of a session, the
\* closed session that was current before the clear while the list is empty.
C20_CurrentIsLastUnlessCleared ==
    \/ GetCurrentSession = Null
    \/ /\ sessions # << >>
       /\ GetCurrentSession = Last(sessions)
    \/ /\ sessions = << >>
       /\ ~heap[GetCurrentSession].isActive
       /\ entries = << >>
       /\ reportLog = << >>

\* The places in the session list of the closed sessions, and their stored
\* durations with 0 at the places of active sessions.
ClosedPlaces ==
    {i \in 1..Len(sessions) : heap[sessions[i]].duration # Undefined}
ClosedMinutes ==
    [i \in 1..Len(sessions) |->
        IF i \in ClosedPlaces THEN heap[sessions[i]].duration[1] ELSE 0]

\* C21 (as documented): the average session length of getSessionStats() is
\* the mean of the stored durations of all closed sessions of the list, every
\* closed session counting, rounded to whole minutes; it is 0 when no session
\* is closed.
C21_AverageOverAllClosed ==
    LET n == Cardinality(ClosedPlaces)
        total == Sum(ClosedMinutes)
        average == GetSessionStats.averageSessionLength
    IN IF n = 0 THEN average = 0
       ELSE /\ 2 * n * average - n <= 2 * total
            /\ 2 * total < 2 * n * average + n

\* C21, what the code does: a closed session of 0 minutes is left out of the
\* mean, so whenever the list holds such a session next to longer ones the
\* reported average is above the mean of all closed sessions.
C21_ZeroMinuteSessionsLeftOut ==
    LET n == Cardinality(ClosedPlaces)
        total == Sum(ClosedMinutes)
        average == GetSessionStats.averageSessionLength
    IN (\E i \in ClosedPlaces : heap[sessions[i]].duration = Some(0)) =>
          /\ GetSessionStats.totalSessions < n
          /\ total > 0 => 2 * total < 2 * n * average - n

\* C22: when a callback-bearing report invokes the callback, the callback
\* can already read the new entry at the end of getAllEntries() and finds the
\* timer reset to a full window, while getCurrentLevel() still returns the
\* previous level, which is the callback's second argument; once the callback
\* has returned, getCurrentLevel() is the new level, its first argument.
C22_CallbackSeesPreviousLevel ==
    [][(lastOp'.name \in CallbackReportOps /\ cbLog' # << >>) =>
        /\ Len(cbLog') = 1
        /\ Len(cbSeen') = 1
        /\ cbSeen'[1].level = currentLevel
        /\ cbSeen'[1].level = cbLog'[1][2]
        /\ cbSeen'[1].level # cbLog'[1][1]
        /\ cbSeen'[1].entries # << >>
        /\ cbSeen'[1].entries =
              Append(GetAllEntries,
                     StressEntry(now, cbLog'[1][1], Last(cbSeen'[1].entries).notes))
        /\ cbSeen'[1].entries = GetAllEntries'
        /\ \E handle \in 1..(Cardinality(timers) + 1) :
              cbSeen'[1].timers = FreshWindow(handle, now)
        /\ lastOp'.outcome = "returned" => GetCurrentLevel' = cbLog'[1][1]
    ]_vars

\* C22 witness: reportStressWithCallback at level low has invoked a callback
\* that returned: the callback could read the high entry and level low, and
\* the level is high now.
C22_Witness ==
    /\ lastOp.name = "reportStressWithCallback" /\ lastOp.outcome = "returned"
    /\ cbLog = << <<"high", "low">> >>
    /\ Len(cbSeen) = 1
    /\ cbSeen[1].level = "low"
    /\ Last(cbSeen[1].entries).level = "high"
    /\ Last(cbSeen[1].entries) = Last(GetAllEntries)
    /\ GetCurrentLevel = "high"

C23_WitnessLaunch ==
    /\ lastOp.name = "reportStressWithCallback"
    /\ reportLog = <<"low", "high">>
    /\ Launches(cbLog) = {1}
    /\ cbLog = << <<"high", "low">> >>

\* C24: in every state between events (after each public operation and each
\* timer firing) an inactivity timer is pending, and the monitor holds its
\* handle, if and only if the current session exists and is active.
C24_TimerPendingIffActive ==
    /\ (timers # {}) <=> HasActiveSession(Monitor)
    /\ (sessionTimeout # Null) <=> HasActiveSession(Monitor)

\* C24 witness: endCodingSession has closed a session whose timer was still
\* pending; the session is inactive and no timer is pending.
C24_Witness ==
    /\ lastOp.name = "endCodingSession"
    /\ currentSession # Null
    /\ ~heap[currentSession].isActive
    /\ heap[currentSession].endTime = Some(now)
    /\ now < LastActivity(heap[currentSession]) + SessionTimeoutMs
    /\ timers = {}
    /\ sessionTimeout = Null

\* A second case of C24: a report has opened a session and its timer is
\* pending.
C24_WitnessActive ==
    /\ lastOp.name \in ReportOps
    /\ HasActiveSession(Monitor)
    /\ Len(heap[currentSession].stressEvents) = 1
    /\ Cardinality(timers) = 1
    /\ sessionTimeout # Null

\* C25: when every callback returns normally and none calls back, in every
\* state between operations getCurrentLevel() is the level of the last entry
\* of the flat list, or low when the list is empty; and startCodingSession,
\* endCodingSession and timer firings leave the level as it was.
C25_LevelIsLastEntrysLevel ==
    /\ [](GetAllEntries # << >> => GetCurrentLevel = Last(GetAllEntries).level)
    /\ [](GetAllEntries = << >> => GetCurrentLevel = "low")
    /\ [][lastOp'.name \in {"startCodingSession", "endCodingSession", "timeout"} =>
            GetCurrentLevel' = GetCurrentLevel]_vars

\* C25 witness: a timer has fired and closed a session whose last report,
\* made through a callback-bearing call with a callback registered, was high;
\* the level is still high.
C25_Witness ==
    /\ lastOp.name = "timeout"
    /\ onStressLevelChanged = "returns"
    /\ Len(entries) = 2
    /\ entries[1].level = "low"
    /\ entries[2].level = "high"
    /\ GetCurrentLevel = "high"

\* C26: when a callback-bearing report has returned, also when its callback
\* called a report or clearHistory of the same monitor before returning, the
\* current level is the level of the last entry of the flat list, or low when
\* the list is empty.
C26_LevelFollowsLastEntryAfterReentry ==
    (lastOp.name \in CallbackReportOps /\ lastOp.outcome = "returned") =>
        GetCurrentLevel = (IF GetAllEntries = << >> THEN "low"
                           ELSE Last(GetAllEntries).level)

\* What the code does instead: the level it stores after the callback has
\* returned is the level of the outer report, whatever the callback did.
C26_OuterLevelWins ==
    [][(/\ lastOp'.name \in CallbackReportOps
        /\ lastOp'.outcome = "returned")
       => GetCurrentLevel' = (IF lastOp'.name = "reportStressWithCallback"
                              THEN "high" ELSE "low")]_vars

\* The event lists of the sessions of a list, one after the other.
RECURSIVE ConcatEvents(_)
ConcatEvents(ss) ==
    IF ss = << >> THEN << >>
    ELSE Head(ss).stressEvents \o ConcatEvents(Tail(ss))

\* The places (session, index) of the event lists of the session list.
EventPlaces ==
    {<<i, j>> \in (1..Len(GetAllSessions)) \X (1..Len(GetAllEntries)) :
        j <= Len(GetAllSessions[i].stressEvents)}

\* The number of events in the sessions before the i-th of the list.
EventsBefore(i) == Len(ConcatEvents(SubSeq(GetAllSessions, 1, i - 1)))

\* C27: every entry of the flat list is in the event list of exactly one
\* session, and the event lists of the sessions, concatenated in the order of
\* the session list, are the flat entry list.  This holds in every run, with
\* or without clearHistory, so in particular in the runs without it.
C27_EntriesAreTheSessionsEvents ==
    /\ ConcatEvents(GetAllSessions) = GetAllEntries
    /\ \A k \in 1..Len(GetAllEntries) :
          Cardinality({p \in EventPlaces :
                         /\ EventsBefore(p[1]) + p[2] = k
                         /\ GetAllSessions[p[1]].stressEvents[p[2]]
                              = GetAllEntries[k]}) = 1
    /\ \A p \in EventPlaces : EventsBefore(p[1]) + p[2] <= Len(GetAllEntries)

\* Two sessions with one entry each, the second entry just reported.
C27_Witness ==
    /\ lastOp.name \in ReportOps
    /\ Len(GetAllSessions) = 2
    /\ Len(GetAllEntries) = 2
    /\ Len(GetAllSessions[1].stressEvents) = 1
    /\ Len(GetAllSessions[2].stressEvents) = 1

\* C28: the clock never goes back, and the sessions of the session list do not
\* overlap in time: a closed session has start <= end, its end is <= the start
\* of the next session of the list, the timestamp of every entry of a session
\* lies between the session's start and its end (the present instant for an
\* active session), and an active session is the last one of the list.
C28_SessionsDoNotOverlap ==
    LET ss == GetAllSessions
    IN \A i \in 1..Len(ss) :
         /\ ~ss[i].isActive =>
               /\ ss[i].endTime # Undefined
               /\ ss[i].startTime <= ss[i].endTime[1]
         /\ i < Len(ss) =>
               /\ ss[i].endTime # Undefined
               /\ ss[i].endTime[1] <= ss[i + 1].startTime
         /\ \A j \in 1..Len(ss[i].stressEvents) :
               /\ ss[i].startTime <= ss[i].stressEvents[j].timestamp
               /\ ss[i].stressEvents[j].timestamp
                    <= (IF ss[i].endTime # Undefined THEN ss[i].endTime[1]
                        ELSE now)
         /\ ss[i].isActive => i = Len(ss)

\* A closed session that lasted some time, with an entry recorded after its
\* start, followed by an active session that has an entry too.
C28_Witness ==
    LET ss == GetAllSessions
    IN /\ Len(ss) = 2
       /\ ~ss[1].isActive /\ ss[2].isActive
       /\ ss[1].endTime # Undefined
       /\ ss[1].startTime < ss[1].endTime[1]
       /\ ss[1].endTime[1] <= ss[2].startTime
       /\ ss[1].stressEvents # << >> /\ ss[2].stressEvents # << >>
       /\ ss[1].startTime < Last(ss[1].stressEvents).timestamp

\* The operations on sessions alone.
SessionOps == {"endCodingSession", "startCodingSession", "timeout"}

\* C29: endCodingSession, startCodingSession and a firing of the inactivity
\* timer leave the flat entry list, the current level and the registered
\* callback as they were; clearHistory leaves the registered callback as it
\* was, and the reportStressWithCallback that follows a clearHistory invokes
\* the registered callback with (high, low), whatever the level was before the
\* clear.
C29_SessionOpsAndClearKeepCallback ==
    [][/\ lastOp'.name \in SessionOps =>
            /\ GetAllEntries' = GetAllEntries
            /\ GetCurrentLevel' = GetCurrentLevel
            /\ onStressLevelChanged' = onStressLevelChanged
       /\ lastOp'.name = "clearHistory" =>
            onStressLevelChanged' = onStressLevelChanged
       /\ (/\ lastOp.name = "clearHistory"
           /\ lastOp'.name = "reportStressWithCallback"
           /\ onStressLevelChanged # "undefined") =>
            cbLog' = << <<"high", "low">> >>]_vars

\* A clearHistory has just taken the level from high to low with a callback
\* registered, and a report can follow.
C29_Witness ==
    /\ lastOp.name = "clearHistory"
    /\ lastOp.from = "high"
    /\ GetCurrentLevel = "low"
    /\ onStressLevelChanged # "undefined"
    /\ CanReport

\* The report that follows: the callback was invoked with (high, low) by the
\* first report since the clear or the construction.
C29_WitnessInvoked ==
    /\ lastOp.name = "reportStressWithCallback"
    /\ reportLog = <<"high">>
    /\ cbLog = << <<"high", "low">> >>
    /\ now > 0

\* A session operation on a monitor with entries, level high and a callback.
C29_WitnessSessionOp ==
    /\ lastOp.name \in SessionOps
    /\ GetAllEntries # << >>
    /\ GetCurrentLevel = "high"
    /\ onStressLevelChanged # "undefined"

====
